---- MODULE Spec2Model ----
(***************************************************************************)
(* RooflinePlots.jl, Python interface (extensions/python/python_utils.py). *)
(*                                                                         *)
(* RooflinePlotter keeps two fields, _config and _plot.  create_plot       *)
(* renders its arguments into Julia source text, evaluates it into a       *)
(* RooflineParams value, and hands that to the Julia core                  *)
(* (params_to_config, create_roofline_plot, determine_bottleneck).  The    *)
(* Julia core is not among the source files; its operators below follow    *)
(* the written specification of the model-construction and                 *)
(* bottleneck-classification engine.                                       *)
(*                                                                         *)
(* Values: bandwidths and flop rates are small integers; a ratio a/b is    *)
(* the pair <<a, b>> and ratios are compared by cross multiplication.      *)
(* A Python optional is None or PyNum(v); a Julia optional is Nothing or   *)
(* JlNum(v); a Python dict is the sequence of its items in insertion       *)
(* order; a Julia Dict is a function on its key set.                       *)
(***************************************************************************)
EXTENDS Integers, Sequences, FiniteSets, TLC

VARIABLES _config, _plot, req, last, ncreate

vars == <<_config, _plot, req, last, ncreate>>

\* Largest bandwidth / flop-rate value of a request.
MaxVal == 2
\* Number of create_plot calls made on one plotter.
MaxCalls == 3

----------------------------------------------------------------------------
(* Python and Julia values *)

None == <<"None">>
PyNum(v) == <<"float", v>>
PyList(s) == <<"list", s>>
IsNone(x) == x[1] = "None"

Nothing == <<"nothing">>
JlNum(v) == <<"num", v>>
IsNothing(x) == x[1] = "nothing"

Range(s) == {s[i] : i \in DOMAIN s}

\* All orders in which the elements of the finite set S can be enumerated.
Orderings(S) ==
    {s \in [1..Cardinality(S) -> S] : \A i, j \in DOMAIN s : s[i] = s[j] => i = j}

----------------------------------------------------------------------------
(* python_utils.py: text generation *)

\* Mutant: an absent measured value is written as 0.
measured_str_zero(measured) ==
    IF ~IsNone(measured) THEN JlNum(measured[2]) ELSE JlNum(0)

\* Mutant: "if measured" for "if measured is not None": 0 is written as nothing.
measured_str_truthy(measured) ==
    IF ~IsNone(measured) /\ measured[2] # 0 THEN JlNum(measured[2]) ELSE Nothing

\* str(measured) if measured is not None else "nothing"
measured_str(measured) ==
    IF ~IsNone(measured) THEN JlNum(measured[2]) ELSE Nothing

\* Mutant: the peak is written in the place of the measured value.
_make_julia_dict_peak_as_measured(python_dict, named_tuple) ==
    IF named_tuple
    THEN [i \in DOMAIN python_dict |->
            [key      |-> python_dict[i].key,
             peak     |-> python_dict[i].peak,
             measured |-> JlNum(python_dict[i].peak)]]
    ELSE [i \in DOMAIN python_dict |->
            [key |-> python_dict[i].key, value |-> python_dict[i].value]]

\* The items of the Dict(...) literal, in the order the Python dict yields them.
_make_julia_dict(python_dict, named_tuple) ==
    IF named_tuple
    THEN [i \in DOMAIN python_dict |->
            [key      |-> python_dict[i].key,
             peak     |-> python_dict[i].peak,
             measured |-> measured_str(python_dict[i].measured)]]
    ELSE [i \in DOMAIN python_dict |->
            [key |-> python_dict[i].key, value |-> python_dict[i].value]]

\* Julia evaluates Dict(k1 => v1, ...) to a hash table: the keys map to their
\* values (the last item of a key wins) and the order of the items is not kept.
JlDict(items) ==
    [k \in {items[i].key : i \in DOMAIN items} |->
        LET i == CHOOSE i \in DOMAIN items :
                    /\ items[i].key = k
                    /\ \A j \in DOMAIN items : items[j].key = k => j <= i
        IN  [peak |-> items[i].peak, measured |-> items[i].measured]]

\* Mutant: only the first member name of a group is written.
types_str_first(types) == IF types = <<>> THEN <<"">> ELSE <<types[1]>>

\* types_str = '", "'.join(types), placed in ["{types_str}"]: a vector of the
\* names, and for an empty list the vector [""] holding the empty name.
types_str(types) == IF types = <<>> THEN <<"">> ELSE types

\* Mutant: "[]" is written whatever combined_groups holds.
combined_groups_jl_dropped(combined_groups) == <<>>

\* combined_groups_jl: "[]" for None, else one (["a", "b"], measured) per group.
combined_groups_jl(combined_groups) ==
    IF IsNone(combined_groups)
    THEN <<>>
    ELSE LET groups == combined_groups[2]
         IN  [i \in DOMAIN groups |->
                [types    |-> types_str(groups[i].types),
                 measured |-> groups[i].measured]]

\* Mutant: "if combined_flops" for "if combined_flops is not None".
combined_flops_str_truthy(combined_flops) ==
    IF ~IsNone(combined_flops) /\ combined_flops[2] # 0
    THEN JlNum(combined_flops[2])
    ELSE Nothing

\* str(combined_flops) if combined_flops is not None else "nothing"
combined_flops_str(combined_flops) ==
    IF ~IsNone(combined_flops) THEN JlNum(combined_flops[2]) ELSE Nothing

\* params = jl.seval("RooflineParams(...)"), the eight positional arguments.
RooflineParams(memory_specs, compute_specs, combined_flops, combined_groups, num_cores, topology, cpu_name, app_name) ==
    [memory_specs    |-> JlDict(memory_specs),
     compute_specs   |-> JlDict(compute_specs),
     combined_flops  |-> combined_flops,
     combined_groups |-> combined_groups,
     num_cores       |-> num_cores,
     topology        |-> topology,
     cpu_name        |-> cpu_name,
     app_name        |-> app_name]

\* Mutant: force_simple is not passed on.
OutputOptions_unforced(force_simple, table_format, plot_format) ==
    [force_simple |-> FALSE,
     table_format |-> table_format,
     plot_format  |-> plot_format]

\* output_opts = jl.OutputOptions(force_simple=..., table_format=..., plot_format=...)
OutputOptions(force_simple, table_format, plot_format) ==
    [force_simple |-> force_simple,
     table_format |-> table_format,
     plot_format  |-> plot_format]

\* Mutant: memory_specs is made from compute.
create_plot_params_compute_twice(r) ==
    RooflineParams(_make_julia_dict(r.compute, TRUE),
                   _make_julia_dict(r.compute, TRUE),
                   combined_flops_str(r.combined_flops),
                   combined_groups_jl(r.combined_groups),
                   r.num_cores, r.topology, r.cpu_name, r.app_name)

\* The params and output options create_plot builds from its arguments.
create_plot_params(r) ==
    RooflineParams(_make_julia_dict(r.memory, TRUE),
                   _make_julia_dict(r.compute, TRUE),
                   combined_flops_str(r.combined_flops),
                   combined_groups_jl(r.combined_groups),
                   r.num_cores, r.topology, r.cpu_name, r.app_name)

create_plot_opts(r) ==
    OutputOptions(r.force_simple, r.table_format, r.plot_format)

----------------------------------------------------------------------------
(* Julia core: MeasurementResolver *)

\* 1. one Measurement per compute roof with an individually measured value
individual_measurements(compute_order, compute_specs) ==
    LET has == SelectSeq(compute_order,
                         LAMBDA k : ~IsNothing(compute_specs[k].measured))
    IN  [i \in 1..Len(has) |->
            [compute_name |-> has[i], flops |-> compute_specs[has[i]].measured[2]]]

\* 2. combined_flops: one Measurement per compute roof lacking an individual value
combined_measurements(compute_order, compute_specs, combined_flops) ==
    IF IsNothing(combined_flops)
    THEN <<>>
    ELSE LET lacks == SelectSeq(compute_order,
                                LAMBDA k : IsNothing(compute_specs[k].measured))
         IN  [i \in 1..Len(lacks) |->
                [compute_name |-> lacks[i], flops |-> combined_flops[2]]]

\* 3. combined groups: one Measurement per member name of each group
RECURSIVE group_measurements(_)
group_measurements(groups) ==
    IF groups = <<>>
    THEN <<>>
    ELSE LET g == Head(groups)
         IN  [i \in 1..Len(g.types) |->
                [compute_name |-> g.types[i], flops |-> g.measured]]
             \o group_measurements(Tail(groups))

\* Individually measured first, then combined-assigned.
resolve_measurements(compute_order, params) ==
    individual_measurements(compute_order, params.compute_specs)
    \o combined_measurements(compute_order, params.compute_specs, params.combined_flops)
    \o group_measurements(params.combined_groups)

----------------------------------------------------------------------------
(* Julia core: ConfigBuilder *)

\* 4. at most one aggregate mechanism may be active
mixes_aggregates(params) ==
    ~IsNothing(params.combined_flops) /\ params.combined_groups # <<>>

peaks_positive(specs) == \A k \in DOMAIN specs : specs[k].peak > 0

measured_non_negative(specs) ==
    \A k \in DOMAIN specs :
        IsNothing(specs[k].measured) \/ specs[k].measured[2] >= 0

aggregates_non_negative(params) ==
    /\ IsNothing(params.combined_flops) \/ params.combined_flops[2] >= 0
    /\ \A i \in DOMAIN params.combined_groups : params.combined_groups[i].measured >= 0

\* every Measurement's compute_name resolves to a declared ComputeRoof
references_resolve(params) ==
    \A i \in DOMAIN params.combined_groups :
        Range(params.combined_groups[i].types) \subseteq DOMAIN params.compute_specs

\* The validation rules of the builder.
valid_specification(params) ==
    /\ DOMAIN params.memory_specs # {}
    /\ DOMAIN params.compute_specs # {}
    /\ peaks_positive(params.memory_specs)
    /\ peaks_positive(params.compute_specs)
    /\ measured_non_negative(params.memory_specs)
    /\ measured_non_negative(params.compute_specs)
    /\ aggregates_non_negative(params)
    /\ ~mixes_aggregates(params)
    /\ references_resolve(params)

\* simple_mode = force_simple OR (len(memory_levels) == 1 AND len(compute_roofs) == 1)
simple_mode(output_opts, memory_levels, compute_roofs) ==
    output_opts.force_simple \/ (Len(memory_levels) = 1 /\ Len(compute_roofs) = 1)

\* The RooflineConfig assembled from validated params.  memory_order and
\* compute_order are the orders in which the two Dicts are iterated; call
\* stands for the identity of the object built.
RooflineConfig(params, output_opts, memory_order, compute_order, call) ==
    LET memory_levels ==
            [i \in 1..Len(memory_order) |->
                [name               |-> memory_order[i],
                 peak_bandwidth     |-> params.memory_specs[memory_order[i]].peak,
                 measured_bandwidth |-> params.memory_specs[memory_order[i]].measured]]
        compute_roofs ==
            [i \in 1..Len(compute_order) |->
                [name       |-> compute_order[i],
                 peak_flops |-> params.compute_specs[compute_order[i]].peak]]
    IN  [memory_levels |-> memory_levels,
         compute_roofs |-> compute_roofs,
         measurements  |-> resolve_measurements(compute_order, params),
         simple_mode   |-> simple_mode(output_opts, memory_levels, compute_roofs),
         num_cores     |-> params.num_cores,
         topology      |-> params.topology,
         cpu_name      |-> params.cpu_name,
         app_name      |-> params.app_name,
         call          |-> call]

\* jl.params_to_config(params, output_opts): a config, or an
\* invalid-specification error and no config.
params_to_config(params, output_opts, memory_order, compute_order, call) ==
    IF valid_specification(params)
    THEN [ok |-> TRUE, error |-> "",
          config |-> <<RooflineConfig(params, output_opts, memory_order, compute_order, call)>>]
    ELSE [ok |-> FALSE, error |-> "invalid-specification", config |-> <<>>]

\* jl.create_roofline_plot(config): the plot drawn from config.
create_roofline_plot(config) == [of |-> config]

----------------------------------------------------------------------------
(* Julia core: BottleneckAnalyzer *)

\* a < b for ratios <<numerator, denominator>> with positive denominators
RatioLess(a, b) == a[1] * b[2] < b[1] * a[2]
RatioEq(a, b) == a[1] * b[2] = b[1] * a[2]

\* mem_ratio = measured_bandwidth / peak_bandwidth
mem_ratio(level) == <<level.measured_bandwidth[2], level.peak_bandwidth>>

\* compute_ratio = f / c.peak_flops
compute_ratio(config, m) ==
    LET c == CHOOSE i \in DOMAIN config.compute_roofs :
                 config.compute_roofs[i].name = m.compute_name
    IN  <<m.flops, config.compute_roofs[c].peak_flops>>

\* the memory levels with a measured bandwidth (the others are skipped)
measured_levels(config) ==
    {i \in DOMAIN config.memory_levels :
        ~IsNothing(config.memory_levels[i].measured_bandwidth)}

\* The level of lowest ratio; among tied levels the innermost (last) one.
lowest_level(config) ==
    CHOOSE i \in measured_levels(config) :
        \A j \in measured_levels(config) :
            LET ri == mem_ratio(config.memory_levels[i])
                rj == mem_ratio(config.memory_levels[j])
            IN  RatioLess(ri, rj) \/ (RatioEq(ri, rj) /\ j <= i)

\* The bottleneck of one measurement: the resource of lowest ratio, a memory
\* level on a tie with compute; compute-only and low-confidence when no
\* memory level has measured data.
measurement_bottleneck(config, m) ==
    IF measured_levels(config) = {}
    THEN [compute_name |-> m.compute_name, kind |-> "compute",
          resource |-> m.compute_name, ratio |-> compute_ratio(config, m),
          verdict |-> "compute-bound", low_confidence |-> TRUE]
    ELSE LET level == config.memory_levels[lowest_level(config)]
         IN  IF RatioLess(compute_ratio(config, m), mem_ratio(level))
             THEN [compute_name |-> m.compute_name, kind |-> "compute",
                   resource |-> m.compute_name, ratio |-> compute_ratio(config, m),
                   verdict |-> "compute-bound", low_confidence |-> FALSE]
             ELSE [compute_name |-> m.compute_name, kind |-> "memory",
                   resource |-> level.name, ratio |-> mem_ratio(level),
                   verdict |-> "memory-bound", low_confidence |-> FALSE]

\* The aggregate verdict: the globally lowest ratio of the per-measurement
\* results, a memory result on a tie.
overall_bottleneck(results) ==
    LET better(a, b) ==
            \/ RatioLess(a.ratio, b.ratio)
            \/ RatioEq(a.ratio, b.ratio) /\ (a.kind = "memory" \/ b.kind = "compute")
        i == CHOOSE i \in DOMAIN results :
                 \A j \in DOMAIN results :
                     better(results[i], results[j]) /\ (better(results[j], results[i]) => i <= j)
    IN  results[i]

\* jl.determine_bottleneck(config): a "no data" failure on a config without
\* measurements, else one result per Measurement and the aggregate verdict.
determine_bottleneck(config) ==
    IF config.measurements = <<>>
    THEN [ok |-> FALSE, error |-> "no data", results |-> <<>>, overall |-> <<>>]
    ELSE LET results == [i \in 1..Len(config.measurements) |->
                            measurement_bottleneck(config, config.measurements[i])]
         IN  [ok |-> TRUE, error |-> "", results |-> results,
              overall |-> <<overall_bottleneck(results)>>]

----------------------------------------------------------------------------
(* RooflinePlotter *)

JlObject(x) == <<"jl", x>>

\* What a call did: the method, how it ended ("ok" or the error raised),
\* whether it reached the Julia backend, whether it returned self, and the
\* value get_bottleneck returned.
Outcome(op, outcome, backend, returns_self, result) ==
    [op |-> op, outcome |-> outcome, backend |-> backend,
     returns_self |-> returns_self, result |-> result]

\* __init__: self._config = None; self._plot = None
PlotterInit ==
    /\ _config = None
    /\ _plot = None
    /\ ncreate = 0
    /\ last = Outcome("__init__", "ok", TRUE, FALSE, <<>>)

\* Mutant: the plot drawn is not stored in self._plot.
create_plot_plot_unstored(r) ==
    /\ ncreate < MaxCalls
    /\ ncreate' = ncreate + 1
    /\ req' = r
    /\ LET params == create_plot_params(r)
           output_opts == create_plot_opts(r)
       IN  \E memory_order \in Orderings(DOMAIN params.memory_specs),
              compute_order \in Orderings(DOMAIN params.compute_specs) :
               LET built == params_to_config(params, output_opts, memory_order,
                                             compute_order, ncreate + 1)
               IN  IF ~built.ok
                   THEN /\ UNCHANGED <<_config, _plot>>
                        /\ last' = Outcome("create_plot", built.error, TRUE, FALSE, <<>>)
                   ELSE /\ _config' = JlObject(built.config[1])
                        /\ UNCHANGED _plot
                        /\ \/ last' = Outcome("create_plot", "ok", TRUE, TRUE, <<>>)
                           \/ last' = Outcome("create_plot", "plot-error", TRUE, FALSE, <<>>)

\* create_plot(memory, compute, ...).  params_to_config raising leaves both
\* fields as they were; create_roofline_plot raising leaves _config assigned
\* and _plot as it was.
create_plot(r) ==
    /\ ncreate < MaxCalls
    /\ ncreate' = ncreate + 1
    /\ req' = r
    /\ LET params == create_plot_params(r)
           output_opts == create_plot_opts(r)
       IN  \E memory_order \in Orderings(DOMAIN params.memory_specs),
              compute_order \in Orderings(DOMAIN params.compute_specs) :
               LET built == params_to_config(params, output_opts, memory_order,
                                             compute_order, ncreate + 1)
               IN  IF ~built.ok
                   THEN /\ UNCHANGED <<_config, _plot>>
                        /\ last' = Outcome("create_plot", built.error, TRUE, FALSE, <<>>)
                   ELSE /\ _config' = JlObject(built.config[1])
                        /\ \/ /\ _plot' = JlObject(create_roofline_plot(built.config[1]))
                              /\ last' = Outcome("create_plot", "ok", TRUE, TRUE, <<>>)
                           \/ /\ UNCHANGED _plot
                              /\ last' = Outcome("create_plot", "plot-error", TRUE, FALSE, <<>>)

\* save(filename)
save ==
    /\ IF IsNone(_plot)
       THEN last' = Outcome("save", "RuntimeError", FALSE, FALSE, <<>>)
       ELSE last' = Outcome("save", "ok", TRUE, TRUE, <<>>)
    /\ UNCHANGED <<_config, _plot, req, ncreate>>

\* print_table()
print_table ==
    /\ IF IsNone(_config)
       THEN last' = Outcome("print_table", "RuntimeError", FALSE, FALSE, <<>>)
       ELSE last' = Outcome("print_table", "ok", TRUE, TRUE, <<>>)
    /\ UNCHANGED <<_config, _plot, req, ncreate>>

\* Mutant: a failure of the analysis is caught and its text returned.
get_bottleneck_caught ==
    /\ IF IsNone(_config)
       THEN last' = Outcome("get_bottleneck", "RuntimeError", FALSE, FALSE, <<>>)
       ELSE last' = Outcome("get_bottleneck", "ok", TRUE, FALSE,
                            <<determine_bottleneck(_config[2])>>)
    /\ UNCHANGED <<_config, _plot, req, ncreate>>

\* get_bottleneck(): str(jl.determine_bottleneck(self._config))
get_bottleneck ==
    /\ IF IsNone(_config)
       THEN last' = Outcome("get_bottleneck", "RuntimeError", FALSE, FALSE, <<>>)
       ELSE LET analysis == determine_bottleneck(_config[2])
            IN  IF analysis.ok
                THEN last' = Outcome("get_bottleneck", "ok", TRUE, FALSE, <<analysis>>)
                ELSE last' = Outcome("get_bottleneck", analysis.error, TRUE, FALSE, <<>>)
    /\ UNCHANGED <<_config, _plot, req, ncreate>>

----------------------------------------------------------------------------
(* Requests *)

MemoryNames == {"DRAM", "L2"}
ComputeNames == {"DP", "SP"}

PeakVals == 0..MaxVal
ValidPeakVals == 1..MaxVal
MeasuredVals == {None} \cup {PyNum(v) : v \in (-1)..MaxVal}
ValidMeasuredVals == {None} \cup {PyNum(v) : v \in 0..MaxVal}

Item(key, peak, measured) == [key |-> key, peak |-> peak, measured |-> measured]

\* The Python dicts of at most Cardinality(names) items: sequences of items
\* with distinct keys.
PyDicts(names, peaks, measureds) ==
    UNION {{d \in [1..n -> [key : names, peak : peaks, measured : measureds]] :
               \A i, j \in 1..n : d[i].key = d[j].key => i = j} :
           n \in 0..Cardinality(names)}

\* The arguments of one create_plot call.
Request(memory, compute, combined_flops, combined_groups, force_simple) ==
    [memory          |-> memory,
     compute         |-> compute,
     num_cores       |-> 64,
     cpu_name        |-> "AMD EPYC 7713",
     app_name        |-> "My App",
     topology        |-> "Dual Socket",
     combined_flops  |-> combined_flops,
     combined_groups |-> combined_groups,
     force_simple    |-> force_simple,
     table_format    |-> "markdown",
     plot_format     |-> "png"]

OneMemory == <<Item("DRAM", MaxVal, PyNum(1))>>
OneCompute == <<Item("DP", MaxVal, PyNum(1))>>
TwoCompute == <<Item("DP", MaxVal, PyNum(1)), Item("SP", MaxVal, PyNum(MaxVal))>>

\* Any memory mapping, valid or not, with a measured compute side.
MemoryRequests ==
    {Request(m, c, None, None, f) :
        m \in PyDicts(MemoryNames, PeakVals, MeasuredVals),
        c \in {OneCompute, TwoCompute},
        f \in BOOLEAN}

\* Any compute mapping, valid or not, with or without combined_flops.
ComputeRequests ==
    {Request(OneMemory, c, x, None, FALSE) :
        c \in PyDicts(ComputeNames, PeakVals, MeasuredVals),
        x \in MeasuredVals}

\* Valid memory mappings against measured compute types: the ratios of both
\* sides vary.
RatioRequests ==
    {Request(m, c, None, None, FALSE) :
        m \in PyDicts(MemoryNames, ValidPeakVals, ValidMeasuredVals) \ {<<>>},
        c \in {<<Item("DP", p, PyNum(v))>> : p \in ValidPeakVals, v \in 0..MaxVal}
              \cup {<<Item("DP", p, PyNum(v)), Item("SP", MaxVal, PyNum(1))>> :
                        p \in ValidPeakVals, v \in 0..MaxVal}}

\* Combined groups: lists of at most two groups, each of at most two member
\* names, declared or not, with or without combined_flops beside them.
GroupTypes ==
    {<<>>} \cup {<<a>> : a \in ComputeNames \cup {"XX"}}
           \cup {t \in ComputeNames \X (ComputeNames \cup {"XX"}) : t[1] # t[2]}
Groups == [types : GroupTypes, measured : {-1, 1}]
GroupLists == {PyList(<<>>)} \cup {PyList(<<g>>) : g \in Groups}
                  \cup {PyList(<<g, h>>) : g \in Groups, h \in Groups}
GroupRequests ==
    {Request(OneMemory, c, x, g, FALSE) :
        c \in {<<Item("DP", MaxVal, None), Item("SP", MaxVal, None)>>,
               <<Item("DP", MaxVal, PyNum(1)), Item("SP", 1, None)>>,
               <<Item("DP", MaxVal, None), Item("", MaxVal, None)>>},
        x \in {None, PyNum(1)},
        g \in GroupLists}

Requests == MemoryRequests \cup ComputeRequests \cup RatioRequests \cup GroupRequests

\* The requests made of a plotter over its life.
LifeRequests ==
    {Request(OneMemory, OneCompute, None, None, FALSE),
     Request(<<Item("DRAM", MaxVal, PyNum(1)), Item("L2", MaxVal, None)>>,
             <<Item("DP", MaxVal, None), Item("SP", MaxVal, None)>>,
             PyNum(1), None, FALSE),
     Request(OneMemory, <<Item("DP", MaxVal, None)>>, None, None, FALSE),
     Request(<<>>, OneCompute, None, None, FALSE),
     Request(OneMemory, OneCompute, PyNum(1), PyList(<<[types |-> <<"DP">>, measured |-> 1]>>), TRUE)}

----------------------------------------------------------------------------
(* Specifications *)

\* A plotter over its life: any calls in any order.
Init ==
    /\ PlotterInit
    /\ req \in LifeRequests

CreatePlot == \E r \in LifeRequests : create_plot(r)
Save == save
PrintTable == print_table
GetBottleneck == get_bottleneck

Next == CreatePlot \/ Save \/ PrintTable \/ GetBottleneck

Spec == Init /\ [][Next]_vars

\* One build request on a fresh plotter, then its analysis.
InitBuild ==
    /\ PlotterInit
    /\ req \in Requests

BuildRequest == ncreate = 0 /\ create_plot(req)
Analyze == ncreate = 1 /\ get_bottleneck

NextBuild == BuildRequest \/ Analyze

SpecBuild == InitBuild /\ [][NextBuild]_vars

----------------------------------------------------------------------------
(* Properties *)

\* The stored config is the one built from req, the arguments of the most
\* recent create_plot call.
ConfigOfReq == ~IsNone(_config) /\ _config[2].call = ncreate

BuiltConfig == _config[2]

PyKeys(d) == {d[i].key : i \in DOMAIN d}

NoGroups == IsNone(req.combined_groups) \/ req.combined_groups[2] = <<>>

\* the Measurements of the built config that name compute type k
MeasurementsOf(k) ==
    {i \in DOMAIN BuiltConfig.measurements : BuiltConfig.measurements[i].compute_name = k}

\* C1: for every build request the built config's simple_mode equals
\* force_simple OR (one memory level AND one compute type).
C1_SimpleMode ==
    ConfigOfReq =>
        (BuiltConfig.simple_mode <=>
            (req.force_simple \/ (Len(req.memory) = 1 /\ Len(req.compute) = 1)))

\* C1 witness: two memory levels and force_simple set give a simple-mode config.
C1_Witness ==
    /\ ConfigOfReq
    /\ Len(req.memory) = 2
    /\ req.force_simple
    /\ BuiltConfig.simple_mode

\* The analysis get_bottleneck returned for the config built from req.
Analysed ==
    /\ ConfigOfReq
    /\ last.op = "get_bottleneck"
    /\ last.outcome = "ok"

MeasuredItems == {i \in DOMAIN req.memory : ~IsNone(req.memory[i].measured)}

ReqMemRatio(i) == <<req.memory[i].measured[2], req.memory[i].peak>>

ReqComputeRatio(m) ==
    LET c == CHOOSE i \in DOMAIN req.compute : req.compute[i].key = m.compute_name
    IN  <<m.flops, req.compute[c].peak>>

\* C2: when at least one memory level has a measured bandwidth, the bottleneck
\* reported for each measurement is the resource whose measured/peak ratio is
\* strictly lowest among the compute ratio and the ratios of the measured
\* memory levels, and a level without a measured bandwidth is never reported.
C2_LowestRatio ==
    (Analysed /\ MeasuredItems # {}) =>
        \A n \in DOMAIN BuiltConfig.measurements :
            LET m == BuiltConfig.measurements[n]
                r == last.result[1].results[n]
            IN  /\ r.compute_name = m.compute_name
                /\ r.kind = "memory" =>
                       \E i \in MeasuredItems : req.memory[i].key = r.resource
                /\ \A i \in MeasuredItems :
                       (/\ RatioLess(ReqMemRatio(i), ReqComputeRatio(m))
                        /\ \A j \in MeasuredItems \ {i} :
                               RatioLess(ReqMemRatio(i), ReqMemRatio(j)))
                       => (r.kind = "memory" /\ r.resource = req.memory[i].key)
                /\ (\A i \in MeasuredItems :
                        RatioLess(ReqComputeRatio(m), ReqMemRatio(i)))
                       => (r.kind = "compute" /\ r.verdict = "compute-bound")

\* C2 witness: a memory level strictly below compute is reported while another
\* level has no measured bandwidth.
C2_Witness ==
    /\ Analysed
    /\ \E i \in DOMAIN req.memory : IsNone(req.memory[i].measured)
    /\ \E n \in DOMAIN BuiltConfig.measurements :
           /\ last.result[1].results[n].kind = "memory"
           /\ RatioLess(last.result[1].results[n].ratio,
                        ReqComputeRatio(BuiltConfig.measurements[n]))

\* C3: with combined_flops = X and no combined groups, each compute type
\* without an individual measured value has exactly one Measurement, with
\* flops X, and each compute type with an individual value has exactly one
\* Measurement, with that value.
C3_CombinedFlops ==
    (ConfigOfReq /\ ~IsNone(req.combined_flops) /\ NoGroups) =>
        /\ Len(BuiltConfig.measurements) = Len(req.compute)
        /\ \A c \in DOMAIN req.compute :
               /\ Cardinality(MeasurementsOf(req.compute[c].key)) = 1
               /\ \A i \in MeasurementsOf(req.compute[c].key) :
                      BuiltConfig.measurements[i].flops =
                          IF IsNone(req.compute[c].measured)
                          THEN req.combined_flops[2]
                          ELSE req.compute[c].measured[2]

\* C3 witness: two unmeasured compute types, two Measurements, both X.
C3_Witness ==
    /\ ConfigOfReq
    /\ ~IsNone(req.combined_flops)
    /\ NoGroups
    /\ Len(req.compute) = 2
    /\ \A c \in DOMAIN req.compute : IsNone(req.compute[c].measured)
    /\ Len(BuiltConfig.measurements) = 2
    /\ \A i \in DOMAIN BuiltConfig.measurements :
           BuiltConfig.measurements[i].flops = req.combined_flops[2]

\* C4: with neither combined_flops nor combined groups, each compute type
\* with an individual measured value has exactly one Measurement, with that
\* value, and a compute type without one has no Measurement.
C4_IndividualOnly ==
    (ConfigOfReq /\ IsNone(req.combined_flops) /\ NoGroups) =>
        \A c \in DOMAIN req.compute :
            IF IsNone(req.compute[c].measured)
            THEN MeasurementsOf(req.compute[c].key) = {}
            ELSE /\ Cardinality(MeasurementsOf(req.compute[c].key)) = 1
                 /\ \A i \in MeasurementsOf(req.compute[c].key) :
                        BuiltConfig.measurements[i].flops = req.compute[c].measured[2]

\* C4 witness: one compute type measured (at 0), one not: a single Measurement.
C4_Witness ==
    /\ ConfigOfReq
    /\ IsNone(req.combined_flops)
    /\ NoGroups
    /\ \E c, d \in DOMAIN req.compute :
           /\ IsNone(req.compute[c].measured)
           /\ req.compute[d].measured = PyNum(0)
    /\ Len(BuiltConfig.measurements) = 1

\* A create_plot call has been made with the arguments req.
Requested == ncreate >= 1

\* The call failed with an invalid-specification error and built no config.
Rejected ==
    /\ ~ConfigOfReq
    /\ last.op = "create_plot" => last.outcome = "invalid-specification"

BothAggregates ==
    /\ ~IsNone(req.combined_flops)
    /\ ~IsNone(req.combined_groups)
    /\ req.combined_groups[2] # <<>>

\* C5: a build request with both combined_flops and a non-empty combined
\* groups list fails with an invalid-specification error and builds no config.
C5_BothAggregatesRejected == (Requested /\ BothAggregates) => Rejected

\* C5 witness: such a request, otherwise valid, has been rejected.
C5_Witness ==
    /\ Requested
    /\ BothAggregates
    /\ last.op = "create_plot"
    /\ last.outcome = "invalid-specification"
    /\ req.combined_flops[2] >= 0
    /\ \A i \in DOMAIN req.combined_groups[2] :
           /\ req.combined_groups[2][i].measured >= 0
           /\ req.combined_groups[2][i].types # <<>>
           /\ Range(req.combined_groups[2][i].types) \subseteq PyKeys(req.compute)

UndeclaredMember ==
    /\ ~IsNone(req.combined_groups)
    /\ \E i \in DOMAIN req.combined_groups[2] :
           ~(Range(req.combined_groups[2][i].types) \subseteq PyKeys(req.compute))

\* C6: construction fails when a combined group names a compute type that is
\* not a key of the compute mapping, and every Measurement of a built config
\* names exactly one declared compute roof.
C6_ReferencesResolve ==
    /\ (Requested /\ UndeclaredMember) => Rejected
    /\ ConfigOfReq =>
           \A i \in DOMAIN BuiltConfig.measurements :
               /\ BuiltConfig.measurements[i].compute_name \in PyKeys(req.compute)
               /\ Cardinality({c \in DOMAIN BuiltConfig.compute_roofs :
                      BuiltConfig.compute_roofs[c].name =
                          BuiltConfig.measurements[i].compute_name}) = 1

\* C6 witness: a group of a declared and an undeclared name, alone and
\* otherwise valid, has been rejected.
C6_Witness ==
    /\ Requested
    /\ UndeclaredMember
    /\ IsNone(req.combined_flops)
    /\ last.op = "create_plot"
    /\ last.outcome = "invalid-specification"
    /\ Len(req.combined_groups[2]) = 1
    /\ req.combined_groups[2][1].measured >= 0
    /\ req.combined_groups[2][1].types[1] \in PyKeys(req.compute)

\* C7: the built config has the memory levels of the memory mapping and the
\* compute roofs of the compute mapping, same number and names, and the memory
\* levels are in the insertion order of the mapping.
C7_InsertionOrder ==
    ConfigOfReq =>
        /\ Len(BuiltConfig.memory_levels) = Len(req.memory)
        /\ Len(BuiltConfig.compute_roofs) = Len(req.compute)
        /\ {BuiltConfig.compute_roofs[i].name : i \in DOMAIN BuiltConfig.compute_roofs}
               = PyKeys(req.compute)
        /\ \A i \in DOMAIN req.memory :
               BuiltConfig.memory_levels[i].name = req.memory[i].key

\* No create_plot call has succeeded: _plot is assigned only by a create_plot
\* call that completes, and is never reset.
NoPlotYet == IsNone(_plot)

\* C8: while no create_plot call has succeeded, save, print_table and
\* get_bottleneck raise RuntimeError without reaching the backend.
C8_NothingBeforeCreatePlot ==
    (NoPlotYet /\ last.op \in {"save", "print_table", "get_bottleneck"}) =>
        (last.outcome = "RuntimeError" /\ ~last.backend)

\* C9: a create_plot call that completes without error returns self and
\* leaves _config and _plot set, and a save, print_table or get_bottleneck
\* call that follows it is not rejected with RuntimeError.
C9_CreatePlotCompletes ==
    [][/\ (last'.op = "create_plot" /\ last'.outcome = "ok") =>
            (last'.returns_self /\ ~IsNone(_config') /\ ~IsNone(_plot'))
       /\ (/\ last.op = "create_plot"
           /\ last.outcome = "ok"
           /\ last'.op \in {"save", "print_table", "get_bottleneck"})
          => last'.outcome # "RuntimeError"]_vars

\* C9 witness: save accepted right after a second, successful create_plot.
C9_Witness ==
    /\ ncreate = 2
    /\ ConfigOfReq
    /\ ~IsNone(_plot)
    /\ _plot[2].of = BuiltConfig
    /\ last.op = "save"
    /\ last.outcome = "ok"
    /\ last.returns_self

InvalidItems(d) ==
    \E i \in DOMAIN d :
        \/ d[i].peak <= 0
        \/ ~IsNone(d[i].measured) /\ d[i].measured[2] < 0

InvalidRequest ==
    \/ req.memory = <<>>
    \/ req.compute = <<>>
    \/ InvalidItems(req.memory)
    \/ InvalidItems(req.compute)
    \/ ~IsNone(req.combined_flops) /\ req.combined_flops[2] < 0
    \/ /\ ~IsNone(req.combined_groups)
       /\ \E i \in DOMAIN req.combined_groups[2] : req.combined_groups[2][i].measured < 0

\* C10: a build request with an empty memory or compute mapping, a peak that
\* is not strictly positive, or a negative measured value fails with an
\* invalid-specification error and builds no config, not even a partial one.
C10_InvalidRejected ==
    (Requested /\ InvalidRequest) =>
        (Rejected /\ (ncreate = 1 => IsNone(_config) /\ IsNone(_plot)))

\* C10 witness: a request whose only fault is a zero peak bandwidth has been
\* rejected.
C10_Witness ==
    /\ Requested
    /\ last.op = "create_plot"
    /\ last.outcome = "invalid-specification"
    /\ IsNone(_config)
    /\ req.memory # <<>>
    /\ \E i \in DOMAIN req.memory : req.memory[i].peak = 0
    /\ \A i \in DOMAIN req.memory :
           IsNone(req.memory[i].measured) \/ req.memory[i].measured[2] >= 0
    /\ ~InvalidItems(req.compute)
    /\ IsNone(req.combined_flops)
    /\ IsNone(req.combined_groups)

\* The request supplies no measured flop rate at all.
NoFlopsSupplied ==
    /\ \A c \in DOMAIN req.compute : IsNone(req.compute[c].measured)
    /\ IsNone(req.combined_flops)
    /\ NoGroups

\* C11: analysing a config without measurements (every compute type
\* unmeasured and no combined mechanism) fails with "no data" and returns no
\* verdict.
C11_NoData ==
    (/\ ConfigOfReq
     /\ last.op = "get_bottleneck"
     /\ (NoFlopsSupplied \/ BuiltConfig.measurements = <<>>))
    => (last.outcome = "no data" /\ last.result = <<>>)

\* C11 witness: two unmeasured compute types, no combined mechanism, and the
\* analysis of the built config has failed with "no data".
C11_Witness ==
    /\ ConfigOfReq
    /\ Len(req.compute) = 2
    /\ NoFlopsSupplied
    /\ BuiltConfig.measurements = <<>>
    /\ last.op = "get_bottleneck"
    /\ last.outcome = "no data"

\* The measured memory items of the request whose ratio is the lowest of all
\* ratios available to measurement m.
LowestItems(m) ==
    {i \in MeasuredItems :
        /\ ~RatioLess(ReqComputeRatio(m), ReqMemRatio(i))
        /\ \A j \in MeasuredItems : ~RatioLess(ReqMemRatio(j), ReqMemRatio(i))}

\* Compute attains the lowest ratio too.
ComputeTied(m) ==
    \E i \in LowestItems(m) : RatioEq(ReqComputeRatio(m), ReqMemRatio(i))

\* The position of the memory level called name in the built config.
LevelPosition(name) ==
    CHOOSE p \in DOMAIN BuiltConfig.memory_levels :
        BuiltConfig.memory_levels[p].name = name

C13_ComputeOnly ==
    (/\ ConfigOfReq
     /\ last.op = "get_bottleneck"
     /\ MeasuredItems = {}
     /\ BuiltConfig.measurements # <<>>)
    => /\ last.outcome = "ok"
       /\ last.result # <<>>
       /\ \A n \in DOMAIN BuiltConfig.measurements :
              LET m == BuiltConfig.measurements[n]
                  r == last.result[1].results[n]
              IN  /\ r.kind = "compute"
                  /\ r.verdict = "compute-bound"
                  /\ r.ratio = ReqComputeRatio(m)
                  /\ r.low_confidence
       /\ last.result[1].overall[1].verdict = "compute-bound"
       /\ last.result[1].overall[1].low_confidence

\* C13 witness: two memory levels, neither measured, one measured compute
\* type, and a low-confidence compute-bound result.
C13_Witness ==
    /\ Analysed
    /\ Len(req.memory) = 2
    /\ MeasuredItems = {}
    /\ Len(BuiltConfig.measurements) >= 1
    /\ last.result[1].results[1].verdict = "compute-bound"
    /\ last.result[1].results[1].low_confidence

\* C14: after any sequence of calls, failed create_plot calls included, the
\* stored plot is set only if the stored config is, and the two are products
\* of the same create_plot call: the plot was drawn from the stored config.
C14_ConfigAndPlotAgree ==
    ~IsNone(_plot) =>
        /\ ~IsNone(_config)
        /\ _plot[2].of = _config[2]

====
